---- MODULE Spec2Model ----
(***************************************************************************)
(* Model of the city-ops demo backend (cityops/backend/app/main.py): one   *)
(* process-wide State record, the POST /api/event handler that mutates it, *)
(* and the KPI and segment reads derived from it.                          *)
(*                                                                         *)
(* Python floats are IEEE-754 binary64.  They are modelled exactly: a      *)
(* float is a 53-bit significand m and an exponent e standing for m * 2^e, *)
(* and every operation rounds to nearest, ties to even, as the hardware    *)
(* does.  Significands do not fit the model checker's integers, so they    *)
(* are little-endian sequences of limbs in radix 2^15.                     *)
(***************************************************************************)
EXTENDS Integers, Sequences, FiniteSets

(***************************************************************************)
(* Bounds of the model.                                                    *)
(***************************************************************************)
\* longest corridor feature list read from disk
MaxFeatures == 4
\* the largest severity a client sends (above the 5 that EventPayload allows)
MaxRawSeverity == 6

(***************************************************************************)
(* Natural numbers of arbitrary size (significands and their products).    *)
(***************************************************************************)
Base == 2^15

RECURSIVE Trim(_)
Trim(x) == IF x = <<>> THEN <<>>
           ELSE IF x[Len(x)] = 0 THEN Trim(SubSeq(x, 1, Len(x) - 1))
           ELSE x

RECURSIVE BigFromNat(_)
BigFromNat(n) == IF n = 0 THEN <<>> ELSE <<n % Base>> \o BigFromNat(n \div Base)

RECURSIVE BigToNat(_)
BigToNat(x) == IF x = <<>> THEN 0 ELSE x[1] + Base * BigToNat(Tail(x))

Limb(x, i) == IF i <= Len(x) THEN x[i] ELSE 0

RECURSIVE BigAddC(_, _, _, _)
BigAddC(x, y, i, c) ==
    IF i > Len(x) /\ i > Len(y)
    THEN (IF c = 0 THEN <<>> ELSE <<c>>)
    ELSE LET s == Limb(x, i) + Limb(y, i) + c
         IN  <<s % Base>> \o BigAddC(x, y, i + 1, s \div Base)

BigAdd(x, y) == BigAddC(x, y, 1, 0)

RECURSIVE BigSubB(_, _, _, _)
BigSubB(x, y, i, b) ==
    IF i > Len(x) THEN <<>>
    ELSE LET d == Limb(x, i) - Limb(y, i) - b
         IN  IF d < 0 THEN <<d + Base>> \o BigSubB(x, y, i + 1, 1)
             ELSE <<d>> \o BigSubB(x, y, i + 1, 0)

\* x - y, for x >= y
BigSub(x, y) == Trim(BigSubB(x, y, 1, 0))

RECURSIVE BigCmpAt(_, _, _)
BigCmpAt(x, y, i) ==
    IF i = 0 THEN 0
    ELSE IF x[i] < y[i] THEN -1
    ELSE IF x[i] > y[i] THEN 1
    ELSE BigCmpAt(x, y, i - 1)

\* -1, 0 or 1 as x is below, equal to or above y
BigCmp(x, y) == IF Len(x) < Len(y) THEN -1
                ELSE IF Len(x) > Len(y) THEN 1
                ELSE BigCmpAt(x, y, Len(x))

RECURSIVE BigMulSmallC(_, _, _, _)
BigMulSmallC(x, d, i, c) ==
    IF i > Len(x)
    THEN (IF c = 0 THEN <<>> ELSE <<c>>)
    ELSE LET p == x[i] * d + c
         IN  <<p % Base>> \o BigMulSmallC(x, d, i + 1, p \div Base)

\* x * d for one limb d
BigMulSmall(x, d) == IF d = 0 THEN <<>> ELSE BigMulSmallC(x, d, 1, 0)

ShiftLimbs(x, n) == IF x = <<>> THEN <<>> ELSE [i \in 1..n |-> 0] \o x

RECURSIVE BigMulAt(_, _, _)
BigMulAt(x, y, j) ==
    IF j > Len(y) THEN <<>>
    ELSE BigAdd(ShiftLimbs(BigMulSmall(x, y[j]), j - 1), BigMulAt(x, y, j + 1))

BigMul(x, y) == BigMulAt(x, y, 1)

RECURSIVE BigDivSmallAt(_, _, _, _)
BigDivSmallAt(x, d, i, r) ==
    IF i = 0 THEN [q |-> <<>>, r |-> r]
    ELSE LET cur  == r * Base + x[i]
             rest == BigDivSmallAt(x, d, i - 1, cur % d)
         IN  [q |-> Append(rest.q, cur \div d), r |-> rest.r]

\* quotient and remainder of x by a divisor d of at most one limb
BigDivSmall(x, d) ==
    LET res == BigDivSmallAt(x, d, Len(x), 0)
    IN  [q |-> Trim(res.q), r |-> res.r]

BigShl(x, k) == ShiftLimbs(BigMulSmall(x, 2^(k % 15)), k \div 15)

BigShr(x, k) ==
    LET n == k \div 15
    IN  IF n >= Len(x) THEN <<>>
        ELSE BigDivSmall(SubSeq(x, n + 1, Len(x)), 2^(k % 15)).q

RECURSIVE SmallBitLen(_)
SmallBitLen(n) == IF n = 0 THEN 0 ELSE 1 + SmallBitLen(n \div 2)

BitLen(x) == IF x = <<>> THEN 0 ELSE 15 * (Len(x) - 1) + SmallBitLen(x[Len(x)])

BigIsOdd(x) == x # <<>> /\ x[1] % 2 = 1

(***************************************************************************)
(* binary64 arithmetic on non-negative values (the program never forms a   *)
(* negative float: severity - 1 >= 0 after clamp_severity).                *)
(***************************************************************************)
MantBits == 53

FloatZero == [m |-> <<>>, e |-> 0]

\* x / 2^k rounded to the nearest integer, ties to even (k >= 1)
RoundShr(x, k) ==
    LET q    == BigShr(x, k)
        r    == BigSub(x, BigShl(q, k))
        half == BigShl(<<1>>, k - 1)
        c    == BigCmp(r, half)
    IN  IF c > 0 \/ (c = 0 /\ BigIsOdd(q)) THEN BigAdd(q, <<1>>) ELSE q

\* the binary64 nearest to n * 2^e
FloatRound(n, e) ==
    IF n = <<>> THEN FloatZero
    ELSE LET L == BitLen(n)
         IN  IF L > MantBits
             THEN LET k == L - MantBits
                      q == RoundShr(n, k)
                  IN  IF BitLen(q) > MantBits
                      THEN [m |-> BigShr(q, 1), e |-> e + k + 1]
                      ELSE [m |-> q, e |-> e + k]
             ELSE [m |-> BigShl(n, MantBits - L), e |-> e - (MantBits - L)]

\* float(n) for an int n >= 0
FloatOfInt(n) == FloatRound(BigFromNat(n), 0)

\* the float a decimal literal num/den denotes (correctly rounded)
FloatLit(num, den) ==
    IF num = 0 THEN FloatZero
    ELSE LET t  == BigDivSmall(BigShl(BigFromNat(num), 64), den).q
             k  == 64 - (BitLen(t) - MantBits)
             d  == BigDivSmall(BigShl(BigFromNat(num), k), den)
             up == 2 * d.r > den \/ (2 * d.r = den /\ BigIsOdd(d.q))
         IN  FloatRound(IF up THEN BigAdd(d.q, <<1>>) ELSE d.q, -k)

FloatMul(a, b) == FloatRound(BigMul(a.m, b.m), a.e + b.e)

FloatAdd(a, b) ==
    IF a.m = <<>> THEN b
    ELSE IF b.m = <<>> THEN a
    ELSE LET e == IF a.e < b.e THEN a.e ELSE b.e
         IN  FloatRound(BigAdd(BigShl(a.m, a.e - e), BigShl(b.m, b.e - e)), e)

\* a <= b
FloatLe(a, b) ==
    IF a.m = <<>> THEN TRUE
    ELSE IF b.m = <<>> THEN FALSE
    ELSE IF a.e # b.e THEN a.e < b.e
    ELSE BigCmp(a.m, b.m) <= 0

\* min(a, b) as Python evaluates it: b only when b < a
FloatMin(a, b) == IF FloatLe(a, b) THEN a ELSE b

\* int(a) done wrong: a rounded to the nearest integer
IntOfFloatNearest(a) ==
    LET b == FloatAdd(a, FloatLit(1, 2))
    IN  IF b.e >= 0 THEN BigToNat(BigShl(b.m, b.e))
        ELSE BigToNat(BigShr(b.m, -b.e))

\* int(a): truncation toward zero
IntOfFloat(a) ==
    IF a.m = <<>> THEN 0
    ELSE IF a.e >= 0 THEN BigToNat(BigShl(a.m, a.e))
    ELSE BigToNat(BigShr(a.m, -a.e))

(***************************************************************************)
(* Program constants and types.  An Optional[...] value is a sequence of   *)
(* length at most one: <<>> is None and <<v>> is the value v.              *)
(***************************************************************************)
BASE_ETA == 340

\* the float literals of the source
Lit_0_05 == FloatLit(5, 100)
Lit_0_2 == FloatLit(2, 10)
Lit_0_7 == FloatLit(7, 10)
Lit_0_8 == FloatLit(8, 10)
Lit_1_0 == FloatLit(10, 10)

TYPE_FACTOR ==
    [accident     |-> FloatLit(8, 10),
     closure      |-> FloatLit(10, 10),
     construction |-> FloatLit(6, 10),
     ems          |-> FloatLit(4, 10),
     clear        |-> FloatLit(0, 10)]

EventTypes == DOMAIN TYPE_FACTOR

None == <<>>
Some(v) == <<v>>

\* node ids a client may name: one a feature of the corridor file may
\* carry and one no feature carries
NodeIds == {"n2", "n9"}

RawNodeIds == {None} \cup {Some(n) : n \in NodeIds}

\* the fields of EventPayload that fail validation
EventPayloadErrors(raw) ==
    (IF raw.type \in {"accident", "closure", "construction", "ems", "clear"}
     THEN {} ELSE {"type"})
    \cup
    (IF raw.severity = None \/ (raw.severity[1] >= 1 /\ raw.severity[1] <= 5)
     THEN {} ELSE {"severity"})

\* the bodies clients send to POST /api/event: every type and one that is
\* none, without a node id and with either, without a severity and with
\* every one from below 1 to above 5
RawTypes == EventTypes \cup {"flood"}
RawSeverities == {None} \cup {Some(s) : s \in 0..MaxRawSeverity}
RawPayloads ==
    [type : RawTypes, node_id : RawNodeIds, severity : RawSeverities]

\* the bodies of the calls that run next to other calls or to a read: the
\* valid ones of every type, with and without a node id and a severity
OverlapPayloads ==
    {p \in RawPayloads :
        /\ EventPayloadErrors(p) = {}
        /\ p.node_id \in {None, Some("n2")}
        /\ p.severity \in {None, Some(4)}}

\* the ids of the features of the corridor file, in the order of the file
FeatureIds == <<"n1", "n2", "n3", "n4", "n5", "n6">>

\* the feature lists the corridor file may hold: up to MaxFeatures
\* features, each with an id of its own; "n2", which a client may name, is
\* the id of the second feature
Corridors ==
    {[i \in 1..n |-> [id |-> FeatureIds[i]]] : n \in 0..MaxFeatures}

Max(a, b) == IF a >= b THEN a ELSE b
Min(a, b) == IF a <= b THEN a ELSE b

clamp_severity(value) ==
    IF value = None THEN 1 ELSE Max(1, Min(5, value[1]))

(***************************************************************************)
(* The KPI of one reading of the three fields _build_kpi looks at.  The    *)
(* three keys are always present, event_type is always a non-empty string  *)
(* of TYPE_FACTOR and severity always an int, so the defaults of the       *)
(* .get calls and the except branch of clamp_severity are never taken.     *)
(***************************************************************************)
KpiOf(sevField, activeField, typeField) ==
    LET severity == clamp_severity(Some(sevField))
        factor   == TYPE_FACTOR[typeField]
        baseline_multiplier ==
            FloatAdd(Lit_0_2,
                     FloatMul(Lit_0_05, FloatOfInt(severity - 1)))
        delta == IF ~activeField THEN 0
                 ELSE IntOfFloat(FloatMul(FloatMul(FloatOfInt(BASE_ETA),
                                                   baseline_multiplier),
                                          factor))
    IN  [eta_ems            |-> BASE_ETA + delta,
         travel_time_delta  |-> delta,
         queue_len_estimate |-> IF delta = 0 THEN 120 ELSE 300]

_build_kpi(st) == KpiOf(st.severity, st.event_active, st.event_type)

(***************************************************************************)
(* toggle_event: the four assignments to STATE, one operator each.         *)
(***************************************************************************)
RequestedSeverity(st, payload) ==
    IF payload.severity # None THEN payload.severity ELSE Some(st.severity)

\* line 98 flipping the flag instead of setting it
WriteActiveToggle(st, payload) ==
    [st EXCEPT !.event_active = (payload.type # "clear") /\ ~st.event_active]

WriteActive(st, payload) ==
    [st EXCEPT !.event_active = (payload.type # "clear")]

\* line 99: flag is the value of STATE["event_active"] the line has read
WriteSeverity(st, severity, flag) ==
    [st EXCEPT !.severity = IF flag THEN severity ELSE 1]

WriteType(st, payload) ==
    [st EXCEPT !.event_type = IF payload.type # "clear" THEN payload.type
                              ELSE "clear"]

WriteFocus(st, payload) ==
    [st EXCEPT !.focus_node_id = payload.node_id]

\* the record a toggle_event call leaves when no other call runs during it
toggle_event(st, payload) ==
    LET severity == clamp_severity(RequestedSeverity(st, payload))
        active   == WriteActive(st, payload)
    IN  WriteFocus(WriteType(WriteSeverity(active, severity,
                                           active.event_active),
                             payload),
                   payload)

(***************************************************************************)
(* get_segments: the congestion written into each feature.  A feature is   *)
(* its id; indices are 1-based here, so feature idx of the source is       *)
(* features[idx + 1].                                                      *)
(***************************************************************************)
hotspot_cap(st, features) ==
    LET severity       == clamp_severity(Some(st.severity))
        hotspot_target == Max(1, Min(3, 1 + severity \div 2))
    IN  Min(hotspot_target, Len(features))

congestion_value(st) ==
    LET severity == clamp_severity(Some(st.severity))
        base_hot == IF st.event_type = "construction" THEN Lit_0_7
                    ELSE Lit_0_8
    IN  FloatMin(Lit_1_0,
                 FloatAdd(base_hot,
                          FloatMul(Lit_0_05,
                                   FloatOfInt(Max(0, severity - 1)))))

\* index of the first feature whose id is the focus node, 0 when there is
\* no focus or no such feature
FocusIndex(features, focus) ==
    LET hits == {i \in 1..Len(features) :
                     focus # None /\ features[i].id = focus[1]}
    IN  IF hits = {} THEN 0
        ELSE (CHOOSE i \in hits : \A j \in hits : i <= j) - 1

\* lines 138-143: the first cap features get value, the others 0.2
mark_features(features, cap, value) ==
    [i \in 1..Len(features) |->
        [id |-> features[i].id,
         congestion |-> IF i - 1 < cap THEN value ELSE Lit_0_2]]

\* lines 127-129: every feature gets 0.2
mark_baseline(features) ==
    [i \in 1..Len(features) |->
        [id |-> features[i].id, congestion |-> Lit_0_2]]

\* get_segments without the branch for an inactive event
get_segments_ignore_inactive(st, features) ==
    IF features = <<>> THEN features
    ELSE mark_features(features, hotspot_cap(st, features),
                       congestion_value(st))

\* get_segments marking one feature more than hotspot_cap
get_segments_one_more(st, features) ==
    IF features = <<>> THEN features
    ELSE IF ~st.event_active THEN mark_baseline(features)
    ELSE mark_features(features, hotspot_cap(st, features) + 1,
                       congestion_value(st))

get_segments(st, features) ==
    IF features = <<>> THEN features
    ELSE IF ~st.event_active THEN mark_baseline(features)
    ELSE mark_features(features, hotspot_cap(st, features),
                       congestion_value(st))


(***************************************************************************)
(* State.  State is the module-level STATE dict.  The handlers are plain   *)
(* def functions, which the framework runs in a thread pool, and nothing   *)
(* locks STATE: calls overlap, and each read or write of a STATE key is a  *)
(* step of its own.  writer[w] is the toggle_event call of thread w and    *)
(* reader the call of one more thread, which runs _build_kpi (for get_kpi  *)
(* or for a push of websocket_stream) or get_segments.  The response of    *)
(* toggle_event, four more reads of STATE, is not kept.                    *)
(*                                                                         *)
(* Bookkeeping, not program state: writer[w].alone tells that no other     *)
(* toggle_event call has been in progress during this one; last is the     *)
(* payload of the call that returned last, when it ran alone and no call   *)
(* has started since; writer[w].rep tells that this call runs alone right  *)
(* after such a call with the same payload, and writer[w].pre is then the  *)
(* record it found; reader.upd is the update that overlapped the read,     *)
(* with the record before it, when one update did and the read began no    *)
(* later than its writes, and Several otherwise.                           *)
(***************************************************************************)
VARIABLES State, writer, reader, last

vars == <<State, writer, reader, last>>

Threads == {1, 2}

StateRecords ==
    [event_active : BOOLEAN, severity : 1..5, event_type : EventTypes,
     focus_node_id : RawNodeIds]

WriterIdle == [pc |-> "idle"]
ReaderIdle == [pc |-> "idle"]

InitState ==
    [event_active |-> FALSE, severity |-> 2, event_type |-> "clear",
     focus_node_id |-> None]

Init ==
    /\ State = InitState
    /\ writer = [w \in Threads |-> WriterIdle]
    /\ reader = ReaderIdle
    /\ last = None

\* thread w is inside the body of toggle_event
InHandler(w) ==
    writer[w].pc \in {"l96", "l98", "l99", "l99store", "l100", "l101", "l102"}

(***************************************************************************)
(* POST /api/event on thread w.                                            *)
(***************************************************************************)
\* a body rejected only after line 98 has run
WriterRejectLate(w, raw) ==
    /\ writer[w].pc = "idle"
    /\ EventPayloadErrors(raw) # {}
    /\ writer' = [writer EXCEPT ![w] =
                      [pc |-> "rejected", payload |-> raw,
                       status |-> 422,
                       detail |-> EventPayloadErrors(raw)]]
    /\ State' = WriteActive(State, raw)
    /\ UNCHANGED <<reader, last>>

\* a body that EventPayload rejects: toggle_event is not called, the
\* answer is 422 with the failing fields
WriterReject(w, raw) ==
    /\ writer[w].pc = "idle"
    /\ EventPayloadErrors(raw) # {}
    /\ writer' = [writer EXCEPT ![w] =
                      [pc |-> "rejected", payload |-> raw,
                       status |-> 422,
                       detail |-> EventPayloadErrors(raw)]]
    /\ UNCHANGED <<State, reader, last>>

\* the 422 answer is sent
RejectReturn(w) ==
    /\ writer[w].pc = "rejected"
    /\ writer' = [writer EXCEPT ![w] = WriterIdle]
    /\ UNCHANGED <<State, reader, last>>

\* the bookkeeping of a call that another call overlaps
Overlapped(call) ==
    IF call.pc = "l96" THEN [call EXCEPT !.alone = FALSE, !.rep = FALSE]
    ELSE [call EXCEPT !.alone = FALSE, !.rep = FALSE, !.pre = None]

\* the bookkeeping of a read overlapped by an update that had begun to
\* write when the read began, or by more than one update
Several == Some([pre |-> None])

\* a body that validates: toggle_event is entered
WriterCall(w, payload) ==
    /\ writer[w].pc = "idle"
    /\ EventPayloadErrors(payload) = {}
    /\ LET alone == \A v \in Threads \ {w} : ~InHandler(v)
       IN  writer' =
               [v \in Threads |->
                   IF v = w
                   THEN [pc |-> "l96", payload |-> payload,
                         alone |-> alone,
                         rep |-> alone /\ last = Some(payload)]
                   ELSE IF InHandler(v) THEN Overlapped(writer[v])
                   ELSE writer[v]]
    /\ last' = None
    /\ reader' = IF reader.pc = "idle" THEN reader
                 ELSE [reader EXCEPT
                           !.upd = IF reader.upd = None
                                   THEN Some([pre |-> Some(State),
                                              payload |-> payload])
                                   ELSE Several]
    /\ UNCHANGED State

\* lines 96-97: requested_severity, which reads STATE["severity"] when the
\* payload carries none, and severity
WriterL96(w) ==
    /\ writer[w].pc = "l96"
    /\ writer' = [writer EXCEPT ![w] =
                      [pc |-> "l98", payload |-> writer[w].payload,
                       alone |-> writer[w].alone, rep |-> writer[w].rep,
                       pre |-> IF writer[w].rep THEN Some(State) ELSE None,
                       severity |-> clamp_severity(
                                        RequestedSeverity(State,
                                                          writer[w].payload))]]
    /\ UNCHANGED <<State, reader, last>>

\* line 98
WriterL98(w) ==
    /\ writer[w].pc = "l98"
    /\ State' = WriteActive(State, writer[w].payload)
    /\ writer' = [writer EXCEPT ![w].pc = "l99"]
    /\ UNCHANGED <<reader, last>>

\* line 99, right-hand side: STATE["event_active"] is read
WriterL99(w) ==
    /\ writer[w].pc = "l99"
    /\ writer' = [writer EXCEPT ![w] =
                      [pc |-> "l99store", payload |-> writer[w].payload,
                       alone |-> writer[w].alone, rep |-> writer[w].rep,
                       pre |-> writer[w].pre,
                       severity |-> writer[w].severity,
                       flag |-> State.event_active]]
    /\ UNCHANGED <<State, reader, last>>

\* line 99, assignment: STATE["severity"] is written
WriterL99Store(w) ==
    /\ writer[w].pc = "l99store"
    /\ State' = WriteSeverity(State, writer[w].severity, writer[w].flag)
    /\ writer' = [writer EXCEPT ![w] =
                      [pc |-> "l100", payload |-> writer[w].payload,
                       alone |-> writer[w].alone, rep |-> writer[w].rep,
                       pre |-> writer[w].pre,
                       severity |-> writer[w].severity]]
    /\ UNCHANGED <<reader, last>>

\* line 100
WriterL100(w) ==
    /\ writer[w].pc = "l100"
    /\ State' = WriteType(State, writer[w].payload)
    /\ writer' = [writer EXCEPT ![w].pc = "l101"]
    /\ UNCHANGED <<reader, last>>

\* line 101
WriterL101(w) ==
    /\ writer[w].pc = "l101"
    /\ State' = WriteFocus(State, writer[w].payload)
    /\ writer' = [writer EXCEPT ![w].pc = "l102"]
    /\ UNCHANGED <<reader, last>>

\* lines 102-110: the response is returned
WriterReturn(w) ==
    /\ writer[w].pc = "l102"
    /\ writer' = [writer EXCEPT ![w] = WriterIdle]
    /\ last' = IF writer[w].alone THEN Some(writer[w].payload) ELSE None
    /\ UNCHANGED <<State, reader>>

\* two threads whose calls overlap
Call == \E w \in Threads, payload \in OverlapPayloads : WriterCall(w, payload)
L96 == \E w \in Threads : WriterL96(w)
L98 == \E w \in Threads : WriterL98(w)
L99 == \E w \in Threads : WriterL99(w)
L99Store == \E w \in Threads : WriterL99Store(w)
L100 == \E w \in Threads : WriterL100(w)
L101 == \E w \in Threads : WriterL101(w)
Return == \E w \in Threads : WriterReturn(w)

Next == Call \/ L96 \/ L98 \/ L99 \/ L99Store \/ L100 \/ L101 \/ Return

Spec == Init /\ [][Next]_vars

\* every record of the type is a starting point: each is a value the
\* calls of the pool's threads can leave in STATE
InitRead ==
    /\ State \in StateRecords
    /\ writer = [w \in Threads |-> WriterIdle]
    /\ reader = ReaderIdle
    /\ last = None

\* one thread whose calls follow one another, every body a client sends
CallSolo == \E payload \in RawPayloads : WriterCall(1, payload)
RejectSolo == \E raw \in RawPayloads : WriterReject(1, raw)

NextSolo ==
    \/ RejectSolo \/ RejectReturn(1) \/ CallSolo
    \/ WriterL96(1) \/ WriterL98(1) \/ WriterL99(1) \/ WriterL99Store(1)
    \/ WriterL100(1) \/ WriterL101(1) \/ WriterReturn(1)

SpecSolo == InitRead /\ [][NextSolo]_vars

(***************************************************************************)
(* One read call, statement by statement, next to the toggle_event calls   *)
(* of thread 1, any number of which may run during the read.               *)
(***************************************************************************)
\* the update in progress when a read begins
UpdateAtCall ==
    IF ~InHandler(1) THEN None
    ELSE IF writer[1].pc = "l96"
    THEN Some([pre |-> Some(State), payload |-> writer[1].payload])
    ELSE Several

\* _build_kpi is entered, from get_kpi or from websocket_stream (whose ts
\* field, wall-clock time, is left out)
ReaderCall ==
    \E via \in {"get_kpi", "websocket_stream"} :
        /\ reader.pc = "idle"
        /\ reader' = [pc |-> "l55", via |-> via, upd |-> UpdateAtCall]
        /\ UNCHANGED <<State, writer, last>>

\* line 55
ReaderL55 ==
    /\ reader.pc = "l55"
    /\ reader' = [pc |-> "l56", via |-> reader.via, upd |-> reader.upd,
                  severity |-> State.severity]
    /\ UNCHANGED <<State, writer, last>>

\* line 56
ReaderL56 ==
    /\ reader.pc = "l56"
    /\ reader' = [pc |-> "l57", via |-> reader.via, upd |-> reader.upd,
                  severity |-> reader.severity,
                  event_active |-> State.event_active]
    /\ UNCHANGED <<State, writer, last>>

\* lines 57-70: the last read and the arithmetic
ReaderL57 ==
    /\ reader.pc = "l57"
    /\ reader' = [pc |-> "done", via |-> reader.via, upd |-> reader.upd,
                  severity |-> reader.severity,
                  event_active |-> reader.event_active,
                  event_type |-> State.event_type,
                  kpi |-> KpiOf(reader.severity, reader.event_active,
                                State.event_type)]
    /\ UNCHANGED <<State, writer, last>>

\* the KPI is returned to the client
ReaderReturn ==
    /\ reader.pc = "done"
    /\ reader' = ReaderIdle
    /\ UNCHANGED <<State, writer, last>>

\* get_segments is entered, lines 120-124: the file is read, whatever
\* feature list it holds, and returned as it is when the list is empty
SegCall ==
    \E features \in Corridors :
        /\ reader.pc = "idle"
        /\ reader' = IF features = <<>>
                     THEN [pc |-> "segdone", upd |-> UpdateAtCall,
                           branch |-> "empty", features |-> features]
                     ELSE [pc |-> "l126", upd |-> UpdateAtCall,
                           features |-> features]
        /\ UNCHANGED <<State, writer, last>>

\* lines 126-130: STATE["event_active"] is read; when it is false every
\* feature gets 0.2 and no other key is looked at
SegL126 ==
    /\ reader.pc = "l126"
    /\ reader' = IF State.event_active
                 THEN [pc |-> "l132", upd |-> reader.upd,
                       features |-> reader.features]
                 ELSE [pc |-> "segdone", upd |-> reader.upd,
                       branch |-> "inactive",
                       features |-> get_segments(
                                        [event_active |-> FALSE,
                                         severity |-> State.severity,
                                         event_type |-> State.event_type],
                                        reader.features)]
    /\ UNCHANGED <<State, writer, last>>

\* line 132: STATE["severity"] is read
SegL132 ==
    /\ reader.pc = "l132"
    /\ reader' = [pc |-> "l135", upd |-> reader.upd,
                  features |-> reader.features,
                  severity |-> clamp_severity(Some(State.severity))]
    /\ UNCHANGED <<State, writer, last>>

\* lines 133-145: STATE["event_type"] is read and the features are marked
SegL135 ==
    /\ reader.pc = "l135"
    /\ reader' = [pc |-> "segdone", upd |-> reader.upd,
                  branch |-> "active",
                  severity |-> reader.severity,
                  features |-> get_segments(
                                   [event_active |-> TRUE,
                                    severity |-> reader.severity,
                                    event_type |-> State.event_type],
                                   reader.features)]
    /\ UNCHANGED <<State, writer, last>>

\* the map is returned to the client
SegReturn ==
    /\ reader.pc = "segdone"
    /\ reader' = ReaderIdle
    /\ UNCHANGED <<State, writer, last>>

CallConc == \E payload \in OverlapPayloads : WriterCall(1, payload)

Update ==
    \/ CallConc
    \/ WriterL96(1) \/ WriterL98(1) \/ WriterL99(1) \/ WriterL99Store(1)
    \/ WriterL100(1) \/ WriterL101(1) \/ WriterReturn(1)

KpiRead == ReaderCall \/ ReaderL55 \/ ReaderL56 \/ ReaderL57 \/ ReaderReturn

SegRead == SegCall \/ SegL126 \/ SegL132 \/ SegL135 \/ SegReturn

\* updates and reads from the initial record
NextConc == Update \/ KpiRead \/ SegRead

SpecConc == Init /\ [][NextConc]_vars

\* the KPI read on every record
NextRead == KpiRead

SpecRead == InitRead /\ [][NextRead]_vars

\* updates and segment reads from every record
NextSeg == Update \/ SegRead

SpecSeg == InitRead /\ [][NextSeg]_vars

\* rejected requests and reads from every record
NextReject == RejectSolo \/ RejectReturn(1) \/ KpiRead \/ SegRead

SpecReject == InitRead /\ [][NextReject]_vars

TypeOK == State \in StateRecords

(***************************************************************************)
(* Properties.                                                             *)
(***************************************************************************)
\* binary64 values written out: 0x1.999999999999ap-3 and 0x1.ccccccccccccdp-1
Double_0_2 == [m |-> <<6554, 13107, 26214, 204>>, e |-> -55]
Double_0_9 == [m |-> <<19661, 6553, 13107, 230>>, e |-> -53]

\* thread w executes line 101, the last write of its toggle_event call
LastWrite(w) == writer[w].pc = "l101" /\ writer'[w].pc = "l102"

\* C1: in the initial state and whenever every POST /api/event so far has
\* completed, event_active is true exactly when event_type is not "clear".
C1_ActiveIffNotClear ==
    (\A w \in Threads : ~InHandler(w))
        => State.event_active = (State.event_type # "clear")

\* C2: a POST /api/event of type "clear" leaves event_active false and
\* severity 1, with or without a severity in the request and whatever the
\* severity was: that is the record once the call has done its last write.
C2_ClearResets ==
    [][\A w \in Threads :
           (LastWrite(w) /\ writer[w].payload.type = "clear")
               => (State'.event_active = FALSE /\ State'.severity = 1)]_vars

\* C3: update is idempotent: when a call that runs alone repeats the
\* payload of the call before it, which ran alone too, it leaves the state
\* record as it found it.
C3_Idempotent ==
    \A w \in Threads :
        (writer[w].pc = "l102" /\ writer[w].rep)
            => State = writer[w].pre[1]

C3_Witness ==
    \E w \in Threads :
        /\ writer[w].pc = "l102"
        /\ writer[w].rep
        /\ writer[w].payload.type = "ems"
        /\ writer[w].payload.severity = Some(3)
        /\ writer[w].payload.node_id = Some("n9")
        /\ State = [event_active |-> TRUE, severity |-> 3,
                    event_type |-> "ems", focus_node_id |-> Some("n9")]

\* C4: the KPI equals the reference formula on the record of the fields
\* the read has found, computed here in exact integer arithmetic (factors
\* in tenths, multiplier in hundredths): inactive gives 0, 340, 120; active
\* gives delta = floor(340 * (0.2 + 0.05*(s-1)) * factor), eta = 340 + delta
\* and queue 120 if delta is 0, else 300.
RefFactorTenths ==
    [accident |-> 8, closure |-> 10, construction |-> 6, ems |-> 4]

RefDelta(st) ==
    IF ~st.event_active THEN 0
    ELSE (340 * (20 + 5 * (st.severity - 1)) * RefFactorTenths[st.event_type])
             \div 1000

RefKpi(st) ==
    [eta_ems            |-> 340 + RefDelta(st),
     travel_time_delta  |-> RefDelta(st),
     queue_len_estimate |-> IF RefDelta(st) = 0 THEN 120 ELSE 300]

C4_KpiFormula ==
    (reader.pc = "done"
        /\ (reader.event_active => reader.event_type # "clear"))
    => /\ reader.kpi = RefKpi(reader)
       /\ ~reader.event_active
            => reader.kpi = [eta_ems |-> 340, travel_time_delta |-> 0,
                             queue_len_estimate |-> 120]
       /\ (reader.event_active /\ reader.event_type = "closure"
                /\ reader.severity = 1)
            => reader.kpi = [eta_ems |-> 408, travel_time_delta |-> 68,
                             queue_len_estimate |-> 300]
       /\ (reader.event_active /\ reader.event_type = "ems"
                /\ reader.severity = 5)
            => (reader.kpi.travel_time_delta = 54 /\ reader.kpi.eta_ems = 394)

C4_Witness ==
    /\ reader.pc = "done"
    /\ State.event_active
    /\ State.event_type = "construction"
    /\ State.severity = 2
    /\ reader.severity = 2
    /\ reader.event_type = "construction"
    /\ reader.kpi.travel_time_delta = 51

\* the records STATE holds from the first to the last write of a
\* toggle_event call that no other call overlaps
UpdateStates(pre, payload) ==
    LET severity == clamp_severity(RequestedSeverity(pre, payload))
        s98  == WriteActive(pre, payload)
        s99  == WriteSeverity(s98, severity, s98.event_active)
        s100 == WriteType(s99, payload)
    IN  {pre, s98, s99, s100, WriteFocus(s100, payload)}

\* the read's history of STATE is known: no update overlapped it, or one
\* did that had written nothing when the read began
HeldKnown ==
    IF reader.upd = None THEN TRUE ELSE reader.upd[1].pre # None

\* the records STATE held during the read
Held ==
    IF reader.upd = None THEN {State}
    ELSE UpdateStates(reader.upd[1].pre[1], reader.upd[1].payload)

\* C5: with event_active false, every feature of the segment read has
\* congestion exactly 0.2, for every feature count (none for an empty
\* list), whatever severity, event_type and focus_node_id are: the read
\* that finds event_active false on line 126 answers the features it
\* loaded with 0.2 on each, and an empty list is answered as it is.
C5_InactiveAllBaseline ==
    [][/\ (reader.pc = "l126" /\ reader'.pc # "l126" /\ ~State.event_active)
            => /\ reader'.pc = "segdone"
               /\ Len(reader'.features) = Len(reader.features)
               /\ \A i \in 1..Len(reader'.features) :
                      /\ reader'.features[i].id = reader.features[i].id
                      /\ reader'.features[i].congestion = Double_0_2
       /\ (reader.pc = "idle" /\ reader'.pc = "segdone")
            => reader'.features = <<>>]_vars

C5_Witness ==
    /\ reader.pc = "segdone"
    /\ reader.branch = "inactive"
    /\ writer[1].pc = "l99"
    /\ State = [event_active |-> FALSE, severity |-> 5,
                event_type |-> "ems", focus_node_id |-> Some("n2")]
    /\ Len(reader.features) = MaxFeatures
    /\ reader.features[1].congestion = Double_0_2

\* the marking C6 describes for a record: min(clamp(1 + floor(s/2), 1, 3), n)
\* features with congestion min(1.0, baseHot + 0.05*(s-1)), baseHot 0.7 for
\* "construction" and 0.8 otherwise, every other feature 0.2; for s = 3 and
\* "accident" the value is 0.9.  The sum and product are binary64
\* operations, as in the program.
RefHotValue(st) ==
    FloatMin(FloatOfInt(1),
             FloatAdd(IF st.event_type = "construction" THEN FloatLit(7, 10)
                      ELSE FloatLit(8, 10),
                      FloatMul(FloatLit(5, 100),
                               FloatOfInt(st.severity - 1))))

RefHotCount(severity, n) ==
    LET t == 1 + severity \div 2
    IN  Min(IF t < 1 THEN 1 ELSE IF t > 3 THEN 3 ELSE t, n)

RefMarking(st, features) ==
    LET hot == {i \in 1..Len(features) :
                    features[i].congestion = RefHotValue(st)}
    IN  /\ Cardinality(hot) = RefHotCount(st.severity, Len(features))
        /\ \A i \in 1..Len(features) \ hot :
               features[i].congestion = Double_0_2
        /\ (st.severity = 3 /\ st.event_type = "accident")
               => RefHotValue(st) = Double_0_9

\* C6: a segment read that finds event_active true returns the marking of
\* a record, with event_active true, that STATE held during the read.
C6_ActiveHotspots ==
    (reader.pc = "segdone" /\ reader.branch = "active" /\ HeldKnown)
        => \E st \in Held :
               st.event_active /\ RefMarking(st, reader.features)

\* the features of the answer with a congestion above 0.2
HotFeatures == {i \in 1..Len(reader.features) :
                    reader.features[i].congestion # Double_0_2}

\* C7 as stated: with event_active true and a non-empty map, the feature
\* at focusIndex is one of the features with the elevated congestion
\* (checked on the reads that no update overlaps).
C7_FocusIsHot ==
    (reader.pc = "segdone" /\ reader.branch = "active" /\ reader.upd = None)
        => (FocusIndex(reader.features, State.focus_node_id) + 1)
               \in HotFeatures

\* C7 as amended: when the read finds event_active true on a non-empty
\* map, the features with the elevated congestion are the first hotspotCap
\* features, hotspotCap taken from the severity the read finds, whatever
\* focus_node_id is; the feature at focusIndex is one of them exactly when
\* focusIndex < hotspotCap.
C7_WindowFromZero ==
    (reader.pc = "segdone" /\ reader.branch = "active")
    => LET cap == RefHotCount(reader.severity, Len(reader.features))
       IN  /\ HotFeatures = 1..cap
           /\ \A focus \in RawNodeIds \cup
                           {Some(reader.features[i].id) :
                                i \in 1..Len(reader.features)} :
                  (FocusIndex(reader.features, focus) + 1) \in HotFeatures
                      <=> FocusIndex(reader.features, focus) < cap

C7_Witness ==
    /\ reader.pc = "segdone"
    /\ reader.branch = "active"
    /\ State.event_active
    /\ State.focus_node_id = Some("n2")
    /\ reader.severity = 1
    /\ Len(reader.features) = 4
    /\ FocusIndex(reader.features, State.focus_node_id) = 1
    /\ HotFeatures = {1}

\* C8: a POST /api/event whose type is not one of the five or whose
\* severity is present and outside 1..5 is answered 422 and leaves the four
\* fields of the state record as they were, and a KPI or segment read,
\* before, during or after such requests, returns the KPI or the segments
\* of that record.
BodyFailsValidation(body) ==
    \/ body.type \notin {"accident", "closure", "construction", "ems", "clear"}
    \/ (body.severity # None
            /\ (body.severity[1] < 1 \/ body.severity[1] > 5))

C8_RejectedLeavesState ==
    [][/\ \A w \in Threads :
            /\ (writer[w].pc = "idle" /\ writer'[w].pc # "idle"
                    /\ BodyFailsValidation(writer'[w].payload))
                   => /\ writer'[w].pc = "rejected"
                      /\ writer'[w].status = 422
                      /\ State' = State
            /\ (writer[w].pc = "rejected" /\ writer'[w].pc # "rejected")
                   => State' = State
       /\ (reader.pc = "l57" /\ reader'.pc = "done")
            => reader'.kpi = _build_kpi(State')
       /\ (reader.pc # "segdone" /\ reader'.pc = "segdone")
            => reader'.features =
                   get_segments(State',
                                [i \in 1..Len(reader'.features) |->
                                    [id |-> reader'.features[i].id]])]_vars

C8_Witness ==
    /\ writer[1].pc = "rejected"
    /\ writer[1].status = 422
    /\ writer[1].payload.type = "ems"
    /\ writer[1].payload.severity = Some(MaxRawSeverity)
    /\ State = [event_active |-> TRUE, severity |-> 5,
                event_type |-> "ems", focus_node_id |-> Some("n9")]
    /\ reader.pc = "done"
    /\ reader.kpi.travel_time_delta = 54

\* C9: a POST /api/event whose type is not "clear" keeps the severity it
\* found (the one it read on line 96) when it carries none and sets
\* severity to s when it carries s in 1..5; either way focus_node_id
\* becomes the request's nodeId, None when it is absent: that is the record
\* once the call has done its last write.
C9_SeverityAndFocus ==
    [][\A w \in Threads :
           (LastWrite(w) /\ writer[w].payload.type # "clear")
               => /\ writer[w].payload.severity = None
                      => State'.severity = writer[w].severity
                  /\ writer[w].payload.severity # None
                      => State'.severity = writer[w].payload.severity[1]
                  /\ State'.focus_node_id = writer[w].payload.node_id]_vars

\* C10: a KPI read that overlaps one update returns the KPI of the record
\* before the update or the KPI of the record after it, never one computed
\* from a mix of old and new fields.
C10_NoTornKpi ==
    (reader.pc = "done" /\ reader.upd # None /\ reader.upd[1].pre # None)
        => reader.kpi \in
               {_build_kpi(reader.upd[1].pre[1]),
                _build_kpi(toggle_event(reader.upd[1].pre[1],
                                        reader.upd[1].payload))}

====
